---- MODULE Spec2Model ----
(***************************************************************************)
(* State-machine model of the OCI asset inventory collector:               *)
(*   BaseModule.main            (src/steampipe/base_module.py)             *)
(*   AssetInventoryBase         (src/steampipe/asset_inventory_base.py)    *)
(*   OCIAsset.run               (src/steampipe/steampipe_oracle.py)        *)
(*   OCIAsset.construct_steampipe_select_query                             *)
(*                                                                         *)
(* One step of the model is one invocation of _get_data together with the  *)
(* code of call_get_data, OCIAsset.run and BaseModule.main that runs until *)
(* the next invocation of _get_data (or until main returns).               *)
(*                                                                         *)
(* Text is modelled as a sequence of tokens: the regions string as a       *)
(* sequence of characters, error text and error signatures as sequences of *)
(* words; "s in text" is containment of a contiguous subsequence.          *)
(***************************************************************************)
EXTENDS Integers, Sequences, FiniteSets, TLC

(***************************************************************************)
(* Bounds of the model.                                                    *)
(***************************************************************************)
\* longest regions string supplied by the caller
MaxRegionsLen == 3
\* longest global / regional catalogue the run iterates over
MaxGlobalTables == 6
MaxRegionalTables == 2
\* most units (global tables + regional tables x scopes) of one run
MaxUnits == 6
\* runs of more than MaxShortRun units are modelled for the regions strings
\* of LongRunRegions and the stdout texts of LongRunStdouts only
MaxShortRun == 2

\* records in the output file of a scan
MaxRecords == 2

(***************************************************************************)
(* Program constants.                                                      *)
(***************************************************************************)
\* StatusCode (base_module.py)
EMPTY_ATTRIBUTE == 1001
UNEXPECTED_ERROR == 1005
SUBPROCESS_ERROR == 1006
FILE_ERROR == 1009
PACKAGE_NOT_FOUND == 1010
JSON_ENCODE_ERROR == 1018
SUBPROCESS_OUTPUT_DECODE_ERROR == 1019
SUCCESS == 2000
NO_DATA == 2001

\* AssetInventoryBase.__init__
max_first_consecutive_allowed_fails == 5

\* default of the parameter retry_count of call_get_data
DefaultRetryCount == 1

\* Python's None and False, as returned by call_get_data and
\* has_authentication_error; neither is a possible payload or signature
None == "None"
False == << >>

(***************************************************************************)
(* Catalogue: prefixes of the class attributes global_table_list and       *)
(* regional_table_list.                                                    *)
(***************************************************************************)
GlobalCatalogue ==
    << "oci_identity_tenancy", "oci_identity_user", "oci_identity_group",
       "oci_identity_policy", "oci_identity_compartment", "oci_identity_api_key",
       "oci_identity_auth_token" >>

RegionalCatalogue ==
    << "oci_adm_knowledge_base", "oci_adm_vulnerability_audit",
       "oci_analytics_instance" >>

Prefix(s, n) == SubSeq(s, 1, IF n < Len(s) THEN n ELSE Len(s))

Range(s) == { s[i] : i \in 1..Len(s) }

(***************************************************************************)
(* Error signatures.                                                       *)
(***************************************************************************)
\* BaseModule._access_exception_list
BaseAccessExceptionList ==
    << <<"InvalidAccessException">>, <<"accessNotConfigured">>,
       <<"AccessDeniedException">>, <<"Authorization_RequestDenied">>,
       <<"invalid_client">>, <<"InvalidSignatureException">>,
       <<"InvalidAuthenticationToken">>, <<"GetCallerIdentity">>,
       <<"UnknownError">> >>

\* the signatures OCIAsset adds
OciAccessExceptionList ==
    << <<"NotAuthorizedOrNotFound">>, <<"AuthorizationFailed">>,
       <<"Forbidden">>, <<"NotAuthenticated">>, <<"FREE_TIER_NOT_SUPPORTED">>,
       <<"InvalidParameter">>, <<"no", "such", "host">>, <<"ServiceError">>,
       <<"Cloudguard", "subscription", "is", "not", "available">>,
       <<"subscription", "is", "not", "available">>,
       <<"missing", "2", "required", "quals">>,
       <<"missing", "3", "required", "quals">>,
       <<"compartmentId", "is", "not", "available">>,
       <<"column", "\"compartment_id\"", "does", "not", "exist">>,
       <<"SQLSTATE", "42703">>, <<"SQLSTATE", "HV000">> >>

Reverse(s) == [ i \in 1..Len(s) |-> s[Len(s) + 1 - i] ]

\* OCIAsset._access_exception_list is list(set(base + extra)): the same
\* signatures in an order that the interpreter's string hashing decides.
\* Two of the possible orders are modelled.
AccessExceptionOrders ==
    { BaseAccessExceptionList \o OciAccessExceptionList,
      Reverse(BaseAccessExceptionList \o OciAccessExceptionList) }

\* call_get_data uses has_authentication_error for its truth value only,
\* which no order changes: a run is modelled with the order of the source
\* text, direct calls with each of AccessExceptionOrders
RunAccessExceptionOrders == { BaseAccessExceptionList \o OciAccessExceptionList }

\* Python's "sig in text" on strings
Contains(sig, text) ==
    \E i \in 1..(Len(text) - Len(sig) + 1) :
        SubSeq(text, i, i + Len(sig) - 1) = sig

\* the loop of BaseModule.has_authentication_error over the signature list:
\* the first signature of list that occurs in error_string, or False
first_match(error_string, list) ==
    LET hits == { i \in 1..Len(list) : Contains(list[i], error_string) }
    IN  IF hits = {} THEN False
        ELSE list[CHOOSE i \in hits : \A j \in hits : i <= j]

(***************************************************************************)
(* The query executor and _get_data.                                       *)
(***************************************************************************)
\* what subprocess.run may return
ReturnCodes == {0, 1}
Stdouts == { "", "not json", "null", "[]", "[{\"id\": 1}]", "[{\"id\": 2}]" }
LongRunStdouts == { "", "not json", "[]", "[{\"id\": 1}]" }
Stderrs ==
    { << >>,
      <<"Error:", "NotAuthenticated">>,
      <<"connection", "reset", "by", "peer">> }

Processes == [ returncode : ReturnCodes, stdout : Stdouts, stderr : Stderrs ]

\* first_match, tabulated for the error texts and signature orders of the model
FirstMatch ==
    [ list \in AccessExceptionOrders |->
        [ error_string \in Stderrs |-> first_match(error_string, list) ] ]

\* BaseModule.has_authentication_error, for a ModuleException ex whose
\* subprocess_standard_error is bytes; list is self._access_exception_list
has_authentication_error(ex, list) ==
    FirstMatch[list][ex.subprocess_standard_error]

\* json.loads on the stdout texts above
JsonValues == { None, "EmptyList", "Rows1", "Rows2" }
json_loads(text) ==
    CASE text = "null" -> [ok |-> TRUE, value |-> None]
      [] text = "[]" -> [ok |-> TRUE, value |-> "EmptyList"]
      [] text = "[{\"id\": 1}]" -> [ok |-> TRUE, value |-> "Rows1"]
      [] text = "[{\"id\": 2}]" -> [ok |-> TRUE, value |-> "Rows2"]
      [] OTHER -> [ok |-> FALSE, value |-> None]

\* Truthy, had run merged whatever call_get_data returned
Truthy_always(output) == TRUE

\* Truthy, had the test been "if output is not None:"
Truthy_not_none(output) == output # None

\* truth value of a payload in "if output:"
Truthy(output) == output \notin { None, "EmptyList" }

ModuleException(msg, table, status_code, process) ==
    [ msg |-> msg, table |-> table, status_code |-> status_code,
      subprocess_return_code |-> process.returncode,
      subprocess_standard_output |-> process.stdout,
      subprocess_standard_error |-> process.stderr ]

\* _get_data, had it not tested the return code of the subprocess
_get_data_ignores_returncode(table, process) ==
    IF process.stdout = "" /\ process.stderr # << >>
    THEN [ raised |-> TRUE, value |-> None,
           ex |-> ModuleException("The process was killed", table,
                                   SUBPROCESS_ERROR, process) ]
    ELSE IF process.stdout = ""
    THEN [ raised |-> TRUE, value |-> None,
           ex |-> ModuleException("Failed to  run query on table", table,
                                   SUBPROCESS_ERROR, process) ]
    ELSE IF json_loads(process.stdout).ok
    THEN [ raised |-> FALSE, value |-> json_loads(process.stdout).value,
           ex |-> None ]
    ELSE [ raised |-> TRUE, value |-> None,
           ex |-> ModuleException("The data was in an unexpected format", table,
                                   SUBPROCESS_ERROR, process) ]

\* AssetInventoryBase._get_data: the result of one executor invocation
\* whose subprocess returned process
_get_data(table, process) ==
    IF process.returncode # 0
    THEN [ raised |-> TRUE, value |-> None,
           ex |-> ModuleException("Failed to run query on table", table,
                                   SUBPROCESS_ERROR, process) ]
    ELSE IF process.stdout = "" /\ process.stderr # << >>
    THEN [ raised |-> TRUE, value |-> None,
           ex |-> ModuleException("The process was killed", table,
                                   SUBPROCESS_ERROR, process) ]
    ELSE IF process.stdout = ""
    THEN [ raised |-> TRUE, value |-> None,
           ex |-> ModuleException("Failed to  run query on table", table,
                                   SUBPROCESS_ERROR, process) ]
    ELSE IF json_loads(process.stdout).ok
    THEN [ raised |-> FALSE, value |-> json_loads(process.stdout).value,
           ex |-> None ]
    ELSE [ raised |-> TRUE, value |-> None,
           ex |-> ModuleException("The data was in an unexpected format", table,
                                   SUBPROCESS_ERROR, process) ]

\* no direct call of _get_data has been made
NoProcess == [ returncode |-> 0, stdout |-> "", stderr |-> << >> ]
NoResult == [ raised |-> FALSE, value |-> None, ex |-> None ]

(***************************************************************************)
(* The regions string.                                                     *)
(***************************************************************************)
\* A string is the sequence of its characters, each of them a text of one
\* character, so that the string and the list of scopes that run makes of
\* it are values of one kind.
RegionChars == { << "a" >>, << "b" >>, << " " >>, << "," >> }

RECURSIVE StringsOfLen(_)
StringsOfLen(n) ==
    IF n = 0 THEN { << >> }
    ELSE { Append(s, c) : s \in StringsOfLen(n - 1), c \in RegionChars }

\* the caller's regions argument; the empty string also stands for None,
\* which the code treats alike ("not self.regions")
RegionsInputs == UNION { StringsOfLen(n) : n \in 0..MaxRegionsLen }

LongRunRegions == { << << "a" >>, << "," >>, << "b" >> >> }

\* the text of a string
text_of(s) == [ i \in 1..Len(s) |-> s[i][1] ]

\* str.replace(" ", "")
replace_spaces(s) == SelectSeq(s, LAMBDA c : c # << " " >>)

\* str.split(",")
RECURSIVE split(_)
split(s) ==
    IF \A i \in 1..Len(s) : s[i] # << "," >>
    THEN << text_of(s) >>
    ELSE LET i == CHOOSE k \in 1..Len(s) :
                      s[k] = << "," >> /\ \A j \in 1..(k - 1) : s[j] # << "," >>
         IN  << text_of(SubSeq(s, 1, i - 1)) >>
                 \o split(SubSeq(s, i + 1, Len(s)))

\* OCIAsset.run: self.regions after "Parse regions string and create list"
parse_regions(s) == split(replace_spaces(s))

\* the scope of a global unit, and the value of an unset OCI_REGION
NoScope == << "no scope" >>

(***************************************************************************)
(* The query builder.  A query is a sequence of pieces of text, the pieces *)
(* that the code puts together; its string is their concatenation.         *)
(***************************************************************************)
\* AssetInventoryBase.selection_string_dict: one entry with columns only, one
\* with a where only and one with both
selection_string_dict ==
    ( "aws_iam_user" :>
          [ columns |-> "arn, akas, name, title, region, create_date, account_id, user_id, _ctx" ] )
    @@ ( "aws_iam_role" :>
          [ columns |-> "*", where |-> "inline_policies IS NOT NULL" ] )
    @@ ( "aws_appautoscaling_target" :>
          [ columns |-> "_ctx, service_namespace, scalable_dimension, resource_id, creation_time, account_id, max_capacity, min_capacity, partition, region, role_arn, scalable_dimension, service_namespace, suspended_state, title",
            where |-> "service_namespace = 'dynamodb'" ] )

\* the set tenant_level_tables of OCIAsset._is_tenant_level_table
tenant_level_tables ==
    { "oci_identity_user", "oci_identity_group", "oci_identity_api_key",
      "oci_identity_auth_token", "oci_identity_authentication_policy",
      "oci_identity_customer_secret_key", "oci_identity_db_credential",
      "oci_identity_dynamic_group", "oci_identity_network_source", "oci_region",
      "oci_certificates_management_certificate_authority_version",
      "oci_certificates_management_certificate_version",
      "oci_core_volume_default_backup_policy", "oci_mysql_heat_wave_cluster",
      "oci_objectstorage_object", "oci_bastion_session",
      "oci_certificates_authority_bundle" }

\* the caller's compartment_id: not supplied, empty, or an identifier
CompartmentInputs == { None, "", "ocid1.compartment.oc1..c" }

\* a run is modelled with the identifier supplied, direct calls of
\* construct_steampipe_select_query with each of CompartmentInputs
RunCompartments == { "ocid1.compartment.oc1..c" }

\* the tables construct_steampipe_select_query is called with: those of the
\* catalogues, a regional table and another table of tenant_level_tables, and
\* the tables of selection_string_dict
QueryTables ==
    Range(GlobalCatalogue) \cup Range(RegionalCatalogue)
        \cup { "oci_objectstorage_object", "oci_bastion_session" }
        \cup DOMAIN selection_string_dict

\* AssetInventoryBase._get_selection_params
_get_selection_params(table) ==
    IF table \in DOMAIN selection_string_dict
    THEN LET params == selection_string_dict[table]
         IN  [ columns |-> params.columns,
               where |-> IF "where" \in DOMAIN params THEN params.where ELSE "" ]
    ELSE [ columns |-> "*", where |-> "" ]

\* OCIAsset._is_tenant_level_table
_is_tenant_level_table(table) == table \in tenant_level_tables

\* sep.join(filters) for a list of filters, each a sequence of pieces
RECURSIVE join(_, _)
join(sep, filters) ==
    IF filters = << >> THEN << >>
    ELSE IF Len(filters) = 1 THEN filters[1]
    ELSE filters[1] \o << sep >> \o join(sep, Tail(filters))

\* construct_steampipe_select_query, had it filtered the tables of
\* tenant_level_tables as well
construct_steampipe_select_query_no_denylist(r, table) ==
    LET params == _get_selection_params(table)
        query == << "select ", params.columns, " from ", table >>
        filters ==
            ( IF params.where # "" THEN << << params.where >> >> ELSE << >> )
            \o ( IF /\ r.compartment_id \notin { None, "" }
                    /\ table \notin Range(r.global_table_list)
                 THEN << << "compartment_id = '", r.compartment_id, "'" >> >>
                 ELSE << >> )
    IN  IF filters # << >>
        THEN query \o << " where " >> \o join(" and ", filters)
        ELSE query

\* construct_steampipe_select_query, had it added every filter as a where
\* clause of its own
construct_steampipe_select_query_where_each(r, table) ==
    LET params == _get_selection_params(table)
        query == << "select ", params.columns, " from ", table >>
        filters ==
            ( IF params.where # "" THEN << << params.where >> >> ELSE << >> )
            \o ( IF /\ r.compartment_id \notin { None, "" }
                    /\ table \notin Range(r.global_table_list)
                    /\ ~_is_tenant_level_table(table)
                 THEN << << "compartment_id = '", r.compartment_id, "'" >> >>
                 ELSE << >> )
    IN  IF filters # << >>
        THEN query \o << " where " >> \o join(" where ", filters)
        ELSE query

\* construct_steampipe_select_query, had it filtered on the active region
construct_steampipe_select_query_in_region(r, table) ==
    LET params == _get_selection_params(table)
        query == << "select ", params.columns, " from ", table >>
        filters ==
            ( IF params.where # "" THEN << << params.where >> >> ELSE << >> )
            \o ( IF /\ r.compartment_id \notin { None, "" }
                    /\ table \notin Range(r.global_table_list)
                    /\ ~_is_tenant_level_table(table)
                 THEN << << "compartment_id = '", r.compartment_id, "'" >> >>
                 ELSE << >> )
            \o ( IF r.OCI_REGION # NoScope
                 THEN << << "region = '" >> \o r.OCI_REGION \o << "'" >> >>
                 ELSE << >> )
    IN  IF filters # << >>
        THEN query \o << " where " >> \o join(" and ", filters)
        ELSE query

\* OCIAsset.construct_steampipe_select_query on the object r;
\* getattr(self, "compartment_id", None) is r.compartment_id
construct_steampipe_select_query(r, table) ==
    LET params == _get_selection_params(table)
        query == << "select ", params.columns, " from ", table >>
        filters ==
            ( IF params.where # "" THEN << << params.where >> >> ELSE << >> )
            \o ( IF /\ r.compartment_id \notin { None, "" }
                    /\ table \notin Range(r.global_table_list)
                    /\ ~_is_tenant_level_table(table)
                 THEN << << "compartment_id = '", r.compartment_id, "'" >> >>
                 ELSE << >> )
    IN  IF filters # << >>
        THEN query \o << " where " >> \o join(" and ", filters)
        ELSE query

\* _get_data, "steampipe_select_query =
\* self.construct_steampipe_select_query(table)", with a record of the
\* queries built
build_query(r, table) ==
    LET steampipe_select_query == construct_steampipe_select_query(r, table)
    IN  [ r EXCEPT !.query = steampipe_select_query,
                   !.query_table = table,
                   !.queries = r.queries \cup { << table, steampipe_select_query >> } ]

(***************************************************************************)
(* State.                                                                  *)
(***************************************************************************)
\* required attributes of OCIAsset._fields other than regions
OtherFields ==
    << "tenancy_ocid", "user_ocid", "fingerprint", "private_key_path", "label" >>

\* OCIAsset._fields, in the order _check_fields reads them
_fields ==
    << "tenancy_ocid", "user_ocid", "fingerprint", "private_key_path",
       "regions", "label" >>

VARIABLES
    pc,                          \* "main" | "get_data" | "returned"
    attrs,                       \* attributes set from kwargs, but regions
    regions,                     \* self.regions
    global_table_list,
    regional_table_list,
    _access_exception_list,
    current_consecutive_fails,
    first_consecutively_failed,
    loop,                        \* the for loop of run that is executing
    table_idx,                   \* position in that loop's table list
    region_idx,                  \* position in self.regions
    retry_count,                 \* argument of the call_get_data in progress
    data,
    data_dict,
    OCI_REGION,                  \* os.environ["OCI_REGION"]
    response,                    \* what main returned
    file,                        \* what _write_to_file wrote
    \* history of the run
    dispatched,                  \* units run called call_get_data for
    attempts,                    \* _get_data invocations of the call in progress
    call_start,                  \* counter, flag and budget when it was made
    last_attempt,                \* how the latest _get_data invocation ended
    last_call,                   \* how the latest call_get_data from run ended
    terminal_failures,           \* calls that ended in a terminal failure
    ever_succeeded,              \* some _get_data invocation has returned
    writes,                      \* number of _write_to_file calls
    yields,                      \* (unit, payload) of the calls that returned data
    raised_ex,                   \* the exception that call_get_data raised
    compartment_id,              \* self.compartment_id, None when not set
    query,                       \* the query built last
    query_table,                 \* the table it was built for
    queries,                     \* (table, query) of the queries built
    classifier_input,            \* the text has_authentication_error was called with
    classifier_output,           \* what has_authentication_error returned
    subprocess_run,              \* what subprocess.run returned to a direct _get_data call
    get_data_result,             \* what that _get_data call returned or raised
    diagnostics,                 \* what the latest attempt of call_get_data printed
    invocations,                 \* _get_data invocations of the run, where they are counted
    run_outcome,                 \* what run() did in a direct call of main
    scan_output,                 \* the file cs-accuknox/{output_file} of a direct execute_cloud_sploit_query call
    final_file,                  \* the file at filename
    scan_result                  \* what that call returned or raised, and the error it printed

vars ==
    << pc, attrs, regions, global_table_list, regional_table_list,
       _access_exception_list, current_consecutive_fails,
       first_consecutively_failed, loop, table_idx, region_idx, retry_count,
       data, data_dict, OCI_REGION, response, file, dispatched, attempts,
       call_start, last_attempt, last_call, terminal_failures, ever_succeeded, writes,
       yields, raised_ex, compartment_id, query, query_table, queries,
       classifier_input,
       classifier_output,
       subprocess_run,
       get_data_result,
       diagnostics,
       invocations,
       run_outcome,
       scan_output,
       final_file,
       scan_result >>

\* the state as one record, so that the code can be written as functions
\* from state to state
Self ==
    [ pc |-> pc, attrs |-> attrs, regions |-> regions,
      global_table_list |-> global_table_list,
      regional_table_list |-> regional_table_list,
      _access_exception_list |-> _access_exception_list,
      current_consecutive_fails |-> current_consecutive_fails,
      first_consecutively_failed |-> first_consecutively_failed,
      loop |-> loop, table_idx |-> table_idx, region_idx |-> region_idx,
      retry_count |-> retry_count, data |-> data, data_dict |-> data_dict,
      OCI_REGION |-> OCI_REGION, response |-> response, file |-> file,
      dispatched |-> dispatched, attempts |-> attempts,
      call_start |-> call_start,
      last_attempt |-> last_attempt, last_call |-> last_call,
      terminal_failures |-> terminal_failures,
      ever_succeeded |-> ever_succeeded, writes |-> writes,
      yields |-> yields, raised_ex |-> raised_ex,
      compartment_id |-> compartment_id, query |-> query,
      query_table |-> query_table, queries |-> queries,
      classifier_input |-> classifier_input,
      classifier_output |-> classifier_output,
      subprocess_run |-> subprocess_run,
      get_data_result |-> get_data_result,
      diagnostics |-> diagnostics,
      invocations |-> invocations,
      run_outcome |-> run_outcome,
      scan_output |-> scan_output,
      final_file |-> final_file,
      scan_result |-> scan_result ]

Becomes(r) ==
    /\ pc' = r.pc
    /\ attrs' = r.attrs
    /\ regions' = r.regions
    /\ global_table_list' = r.global_table_list
    /\ regional_table_list' = r.regional_table_list
    /\ _access_exception_list' = r._access_exception_list
    /\ current_consecutive_fails' = r.current_consecutive_fails
    /\ first_consecutively_failed' = r.first_consecutively_failed
    /\ loop' = r.loop
    /\ table_idx' = r.table_idx
    /\ region_idx' = r.region_idx
    /\ retry_count' = r.retry_count
    /\ data' = r.data
    /\ data_dict' = r.data_dict
    /\ OCI_REGION' = r.OCI_REGION
    /\ response' = r.response
    /\ file' = r.file
    /\ dispatched' = r.dispatched
    /\ attempts' = r.attempts
    /\ call_start' = r.call_start
    /\ last_attempt' = r.last_attempt
    /\ last_call' = r.last_call
    /\ terminal_failures' = r.terminal_failures
    /\ ever_succeeded' = r.ever_succeeded
    /\ writes' = r.writes
    /\ yields' = r.yields
    /\ raised_ex' = r.raised_ex
    /\ compartment_id' = r.compartment_id
    /\ query' = r.query
    /\ query_table' = r.query_table
    /\ queries' = r.queries
    /\ classifier_input' = r.classifier_input
    /\ classifier_output' = r.classifier_output
    /\ subprocess_run' = r.subprocess_run
    /\ get_data_result' = r.get_data_result
    /\ diagnostics' = r.diagnostics
    /\ invocations' = r.invocations
    /\ run_outcome' = r.run_outcome
    /\ scan_output' = r.scan_output
    /\ final_file' = r.final_file
    /\ scan_result' = r.scan_result

\* no file at a path, and no direct call of execute_cloud_sploit_query made
NoFile == [ state |-> "missing", records |-> << >> ]
NoScan ==
    [ kind |-> "none", type |-> None, status_code |-> 0,
      subprocess_standard_error |-> << >>, printed |-> None ]

\* main has not called run
NotCalled == [ kind |-> "not called", type |-> None, status_code |-> 0 ]

NoCall == [ kind |-> "none", attempts |-> 0, value |-> None, fails_before |-> 0,
            unit |-> << None, NoScope >> ]

\* dict.update({key: value})
update(dict, key, value) ==
    [ k \in DOMAIN dict \cup { key } |-> IF k = key THEN value ELSE dict[k] ]

\* the other required attributes: all supplied, or one of them missing
AttrsInputs ==
    { [ f \in Range(OtherFields) |-> IF f = missing THEN None ELSE "set" ] :
          missing \in Range(OtherFields) \cup { None } }

\* the state after AssetInventoryBase.__init__
Init ==
    /\ pc = "main"
    /\ attrs \in AttrsInputs
    /\ regions \in RegionsInputs
    /\ compartment_id \in RunCompartments
    /\ \E g \in 0..MaxGlobalTables, r \in 0..MaxRegionalTables :
          /\ g + r * Len(split(regions)) <= MaxUnits
          /\ g + r * Len(split(regions)) > MaxShortRun
                => regions \in LongRunRegions
          /\ global_table_list = Prefix(GlobalCatalogue, g)
          /\ regional_table_list = Prefix(RegionalCatalogue, r)
    /\ _access_exception_list \in RunAccessExceptionOrders
    /\ current_consecutive_fails = 0
    /\ first_consecutively_failed = TRUE
    /\ loop = "none"
    /\ table_idx = 0
    /\ region_idx = 0
    /\ retry_count = 0
    /\ data = << >>
    /\ data_dict = << >>
    /\ OCI_REGION = NoScope
    /\ response = << >>
    /\ file = None
    /\ dispatched = << >>
    /\ attempts = 0
    /\ call_start = [ fails |-> 0, flag |-> TRUE, retry_count |-> 0 ]
    /\ last_attempt = "none"
    /\ last_call = NoCall
    /\ terminal_failures = 0
    /\ ever_succeeded = FALSE
    /\ writes = 0
    /\ yields = {}
    /\ raised_ex = None
    /\ query = << >>
    /\ query_table = None
    /\ queries = {}
    /\ classifier_input = << >>
    /\ classifier_output = False
    /\ subprocess_run = NoProcess
    /\ get_data_result = NoResult
    /\ diagnostics = << >>
    /\ invocations = 0
    /\ run_outcome = NotCalled
    /\ scan_output = NoFile
    /\ final_file = NoFile
    /\ scan_result = NoScan

(***************************************************************************)
(* BaseModule.main and OCIAsset.run.                                       *)
(***************************************************************************)
\* _generate_error_response, had it reported every error as unexpected
_generate_error_response_unexpected(msg, status_code, info, code, out) ==
    [ response |-> << "oci_asset_inventory", msg >>,
      status_code |-> UNEXPECTED_ERROR,
      additional_info |-> info,
      subprocess_return_code |-> code,
      subprocess_standard_output |-> out,
      subprocess_standard_error |-> "<error>subprocess_standard_error</error>" ]

\* BaseModule._generate_error_response
\* (info, code and out are its parameters additional_info,
\* subprocess_return_code and subprocess_standard_output)
_generate_error_response(msg, status_code, info, code, out) ==
    [ response |-> << "oci_asset_inventory", msg >>,
      status_code |-> status_code,
      additional_info |-> info,
      subprocess_return_code |-> code,
      subprocess_standard_output |-> out,
      subprocess_standard_error |-> "<error>subprocess_standard_error</error>" ]

\* total_tables_attempted, had it counted one unit for each scope of a
\* regional table
total_tables_attempted_per_scope(r) ==
    Len(r.global_table_list) + Len(r.regional_table_list) * Len(r.regions)

\* OCIAsset.run, "total_tables_attempted = ..."
total_tables_attempted(r) ==
    Len(r.global_table_list) + Len(r.regional_table_list)

\* total_tables_with_data, had it counted a regional table once for each
\* scope with data
total_tables_with_data_per_scope(r) == Cardinality(r.yields)

\* OCIAsset.run, "total_tables_with_data = len(data)"
total_tables_with_data(r) == Cardinality(DOMAIN r.data)

\* run_summary, had the response of a run without data carried no counts
run_summary_bare_no_data(r) ==
    IF DOMAIN r.data # {}
    THEN [ r EXCEPT !.pc = "returned",
                    !.attempts = 0,
                    !.file = r.data,
                    !.writes = r.writes + 1,
                    !.response =
                        [ response |-> "Success! written to /tmp folder",
                          status_code |-> SUCCESS,
                          tables_scanned |-> total_tables_attempted(r),
                          tables_with_data |-> total_tables_with_data(r) ] ]
    ELSE [ r EXCEPT !.pc = "returned",
                    !.attempts = 0,
                    !.response =
                        [ response |-> "Scan completed but no data available",
                          status_code |-> SUCCESS ] ]

\* run_summary, had it written the artifact of a run without data as well
run_summary_always_writes(r) ==
    [ r EXCEPT !.pc = "returned",
               !.attempts = 0,
               !.file = r.data,
               !.writes = r.writes + 1,
               !.response =
                   [ response |-> "Success! written to /tmp folder",
                     status_code |-> SUCCESS,
                     tables_scanned |-> total_tables_attempted(r),
                     tables_with_data |-> total_tables_with_data(r) ] ]

\* OCIAsset.run from "Generate summary statistics" to its return, and the
\* return of main
run_summary(r) ==
    IF DOMAIN r.data # {}
    THEN [ r EXCEPT !.pc = "returned",
                    !.attempts = 0,
                    !.file = r.data,
                    !.writes = r.writes + 1,
                    !.response =
                        [ response |-> "Success! written to /tmp folder",
                          status_code |-> SUCCESS,
                          tables_scanned |-> total_tables_attempted(r),
                          tables_with_data |-> total_tables_with_data(r) ] ]
    ELSE [ r EXCEPT !.pc = "returned",
                    !.attempts = 0,
                    !.response =
                        [ response |-> "Scan completed but no data available",
                          status_code |-> SUCCESS,
                          tables_scanned |-> total_tables_attempted(r),
                          tables_with_data |-> 0 ] ]

\* run calls self.call_get_data(table) for the unit (table, scope)
dispatch(r, table, scope) ==
    [ r EXCEPT !.pc = "get_data",
               !.retry_count = DefaultRetryCount,
               !.attempts = 0,
               !.call_start = [ fails |-> r.current_consecutive_fails,
                                flag |-> r.first_consecutively_failed,
                                retry_count |-> DefaultRetryCount ],
               !.dispatched = Append(r.dispatched, << table, scope >>) ]

\* regional_loop, had it not set OCI_REGION for the first scope of a table
regional_loop_keeps_environment(r, j) ==
    IF j > Len(r.regional_table_list)
    THEN run_summary(r)
    ELSE dispatch([ r EXCEPT !.loop = "regional",
                             !.table_idx = j,
                             !.region_idx = 1,
                             !.data_dict = << >> ],
                  r.regional_table_list[j], r.regions[1])

\* OCIAsset.run: the regional loop from the head of its iteration j up to
\* the first call_get_data of that iteration
regional_loop(r, j) ==
    IF j > Len(r.regional_table_list)
    THEN run_summary(r)
    ELSE dispatch([ r EXCEPT !.loop = "regional",
                             !.table_idx = j,
                             !.region_idx = 1,
                             !.data_dict = << >>,
                             !.OCI_REGION = r.regions[1] ],
                  r.regional_table_list[j], r.regions[1])

\* global_loop, had it gone through global_table_list from its end
global_loop_backwards(r, i) ==
    IF i > Len(r.global_table_list)
    THEN regional_loop(r, 1)
    ELSE dispatch([ r EXCEPT !.loop = "global", !.table_idx = i ],
                  r.global_table_list[Len(r.global_table_list) + 1 - i], NoScope)

\* OCIAsset.run: the global loop from the head of its iteration i up to the
\* call_get_data of that iteration
global_loop(r, i) ==
    IF i > Len(r.global_table_list)
    THEN regional_loop(r, 1)
    ELSE dispatch([ r EXCEPT !.loop = "global", !.table_idx = i ],
                  r.global_table_list[i], NoScope)

\* OCIAsset.run from the return of call_get_data with output up to the next
\* call_get_data, or to the return of main when there is none.  A call that
\* was not made by run (loop = "direct") returns to its caller.
after_call(r, output) ==
    IF r.loop = "direct"
    THEN [ r EXCEPT !.pc = "returned", !.attempts = 0 ]
    ELSE IF r.loop = "global"
    THEN global_loop(
             IF Truthy(output)
             THEN [ r EXCEPT !.data =
                        update(r.data, r.global_table_list[r.table_idx], output) ]
             ELSE r,
             r.table_idx + 1)
    ELSE LET region == r.regions[r.region_idx]
             r1 == IF Truthy(output)
                   THEN [ r EXCEPT !.data_dict = update(r.data_dict, region, output) ]
                   ELSE r
         IN  IF r.region_idx < Len(r.regions)
             THEN dispatch([ r1 EXCEPT !.region_idx = r.region_idx + 1,
                                       !.OCI_REGION = r.regions[r.region_idx + 1] ],
                           r.regional_table_list[r.table_idx],
                           r.regions[r.region_idx + 1])
             ELSE regional_loop(
                      IF DOMAIN r1.data_dict # {}
                      THEN [ r1 EXCEPT !.data =
                                 update(r1.data,
                                        r.regional_table_list[r.table_idx],
                                        r1.data_dict) ]
                      ELSE r1,
                      r.table_idx + 1)

\* main_except, had run caught the exception of call_get_data and gone on
\* with the next unit
main_except_swallowed(r, e) == after_call(r, None)

\* BaseModule.main, "except ModuleException as e": run is abandoned and
\* main returns the error response
main_except(r, e) ==
    [ r EXCEPT !.pc = "returned",
               !.attempts = 0,
               !.response =
                   _generate_error_response(<< e.msg, e.table >>, e.status_code,
                                            None, e.subprocess_return_code,
                                            e.subprocess_standard_output) ]

\* BaseModule._check_fields: the first required field that is empty, or None
_check_fields(r) ==
    LET empty == { i \in 1..Len(_fields) :
                     IF _fields[i] = "regions" THEN r.regions = << >>
                     ELSE r.attrs[_fields[i]] = None }
    IN  IF empty = {} THEN None
        ELSE _fields[CHOOSE i \in empty : \A j \in empty : i <= j]

\* BaseModule.main up to the first call_get_data of run, or to its return.
\* _check_fields has raised for an empty regions, so the test
\* "if not self.regions" of run is never true here.
main(r) ==
    IF _check_fields(r) # None
    THEN [ r EXCEPT !.pc = "returned",
                    !.response =
                        _generate_error_response(
                            << "Provide value", _check_fields(r) >>,
                            EMPTY_ATTRIBUTE, None, None, None) ]
    ELSE global_loop([ r EXCEPT !.data = << >>,
                                !.regions = parse_regions(r.regions) ], 1)

(***************************************************************************)
(* AssetInventoryBase.call_get_data.                                       *)
(***************************************************************************)
\* should_retry, had it retried every failure
should_retry_any_error(count, exception_identifier) == count > 0

\* should_retry, had it retried with the budget at 0 as well
should_retry_at_zero(count, exception_identifier) ==
    count >= 0 /\ exception_identifier # False

\* "if retry_count > 0 and exception_identifier"
should_retry(count, exception_identifier) ==
    count > 0 /\ exception_identifier # False

\* abort_condition, had it compared with > instead of >=
abort_condition_strict(flag, fails) ==
    flag = TRUE /\ fails > max_first_consecutive_allowed_fails

\* abort_condition, had it not looked at first_consecutively_failed
abort_condition_ignores_flag(flag, fails) ==
    fails >= max_first_consecutive_allowed_fails

\* "self.first_consecutively_failed is True and
\*  self.current_consecutive_fails >= self.max_first_consecutive_allowed_fails"
abort_condition(flag, fails) ==
    flag = TRUE /\ fails >= max_first_consecutive_allowed_fails

\* the calls that have returned a non-empty payload, once the call in
\* progress has returned value
yielded(r, value) ==
    IF value \in { None, "EmptyList" } THEN r.yields
    ELSE r.yields \cup { << r.dispatched[Len(r.dispatched)], value >> }

\* call_get_data_try, had it left first_consecutively_failed alone
call_get_data_try_keeps_flag(r, value) ==
    [ r EXCEPT !.diagnostics = << >>,
               !.last_attempt = "success",
               !.ever_succeeded = TRUE,
               !.yields = yielded(r, value),
               !.last_call = [ kind |-> "success", attempts |-> r.attempts + 1,
                               value |-> value,
                               fails_before |-> r.call_start.fails,
                               unit |-> r.dispatched[Len(r.dispatched)] ] ]

\* call_get_data_try, had it cleared first_consecutively_failed only for a
\* payload that is not empty
call_get_data_try_needs_data(r, value) ==
    [ r EXCEPT !.first_consecutively_failed =
                   IF Truthy(value) THEN FALSE ELSE r.first_consecutively_failed,
               !.diagnostics = << >>,
               !.last_attempt = "success",
               !.ever_succeeded = TRUE,
               !.yields = yielded(r, value),
               !.last_call = [ kind |-> "success", attempts |-> r.attempts + 1,
                               value |-> value,
                               fails_before |-> r.call_start.fails,
                               unit |-> r.dispatched[Len(r.dispatched)] ] ]

\* the try branch of call_get_data: _get_data returned value
call_get_data_try(r, value) ==
    [ r EXCEPT !.first_consecutively_failed = FALSE,
               !.diagnostics = << >>,
               !.last_attempt = "success",
               !.ever_succeeded = TRUE,
               !.yields = yielded(r, value),
               !.last_call = [ kind |-> "success", attempts |-> r.attempts + 1,
                               value |-> value,
                               fails_before |-> r.call_start.fails,
                               unit |-> r.dispatched[Len(r.dispatched)] ] ]

\* call_get_data_fail, had it printed the customer's diagnostic for every
\* terminal failure
call_get_data_fail_customer_always(r, exception_identifier) ==
    [ r EXCEPT !.current_consecutive_fails = r.current_consecutive_fails + 1,
               !.diagnostics =
                   << "INTERNAL-TEAM-ISSUE", "CUSTOMER-ISSUE" >>,
               !.last_attempt = IF exception_identifier # False
                                THEN "classified" ELSE "unclassified",
               !.terminal_failures = r.terminal_failures + 1,
               !.last_call = [ kind |-> "failure", attempts |-> r.attempts + 1,
                               value |-> None,
                               fails_before |-> r.call_start.fails,
                               unit |-> r.dispatched[Len(r.dispatched)] ] ]

\* call_get_data_fail, had it counted every failed attempt of the call
call_get_data_fail_counting_attempts(r, exception_identifier) ==
    [ r EXCEPT !.current_consecutive_fails =
                   r.current_consecutive_fails + r.attempts + 1,
               !.diagnostics =
                   IF exception_identifier # False
                   THEN << "INTERNAL-TEAM-ISSUE", "CUSTOMER-ISSUE" >>
                   ELSE << "INTERNAL-TEAM-ISSUE" >>,
               !.last_attempt = IF exception_identifier # False
                                THEN "classified" ELSE "unclassified",
               !.terminal_failures = r.terminal_failures + 1,
               !.last_call = [ kind |-> "failure", attempts |-> r.attempts + 1,
                               value |-> None,
                               fails_before |-> r.call_start.fails,
                               unit |-> r.dispatched[Len(r.dispatched)] ] ]

\* the else branch of "except ModuleException as ex" up to the test of the
\* abort condition
call_get_data_fail(r, exception_identifier) ==
    [ r EXCEPT !.current_consecutive_fails = r.current_consecutive_fails + 1,
               !.diagnostics =
                   IF exception_identifier # False
                   THEN << "INTERNAL-TEAM-ISSUE", "CUSTOMER-ISSUE" >>
                   ELSE << "INTERNAL-TEAM-ISSUE" >>,
               !.last_attempt = IF exception_identifier # False
                                THEN "classified" ELSE "unclassified",
               !.terminal_failures = r.terminal_failures + 1,
               !.last_call = [ kind |-> "failure", attempts |-> r.attempts + 1,
                               value |-> None,
                               fails_before |-> r.call_start.fails,
                               unit |-> r.dispatched[Len(r.dispatched)] ] ]

\* call_get_data_retry, had it counted the failed attempt
call_get_data_retry_counting(r, exception_identifier) ==
    [ r EXCEPT !.retry_count = r.retry_count - 1,
               !.attempts = r.attempts + 1,
               !.current_consecutive_fails = r.current_consecutive_fails + 1,
               !.diagnostics = << "info" >>,
               !.last_attempt = IF exception_identifier # False
                                THEN "classified" ELSE "unclassified" ]

\* call_get_data_retry, had it called itself with retry_count as it is
call_get_data_retry_keeps_budget(r, exception_identifier) ==
    [ r EXCEPT !.attempts = r.attempts + 1,
               !.diagnostics = << "info" >>,
               !.last_attempt = IF exception_identifier # False
                                THEN "classified" ELSE "unclassified" ]

\* the retry branch: "return self.call_get_data(table, retry_count - 1)", up
\* to the _get_data invocation of the recursive call
call_get_data_retry(r, exception_identifier) ==
    [ r EXCEPT !.retry_count = r.retry_count - 1,
               !.attempts = r.attempts + 1,
               !.diagnostics = << "info" >>,
               !.last_attempt = IF exception_identifier # False
                                THEN "classified" ELSE "unclassified" ]

\* how one invocation of _get_data by call_get_data, whose subprocess
\* returned process, ends: the branch of call_get_data that is taken
attempt_kind(r, process) ==
    LET res == _get_data(r.dispatched[Len(r.dispatched)][1], process)
        exception_identifier ==
            has_authentication_error(res.ex, r._access_exception_list)
    IN  IF ~res.raised THEN "success"
        ELSE IF should_retry(r.retry_count, exception_identifier) THEN "retry"
        ELSE IF abort_condition(r.first_consecutively_failed,
                                r.current_consecutive_fails + 1) THEN "abort"
        ELSE "failure"

\* one invocation of _get_data by call_get_data, whose subprocess returned
\* process, and what follows it up to the next invocation
call_get_data(r, process) ==
    LET table == r.dispatched[Len(r.dispatched)][1]
        r0 == build_query(r, table)
        res == _get_data(table, process)
        exception_identifier ==
            has_authentication_error(res.ex, r._access_exception_list)
        r1 == call_get_data_fail(r0, exception_identifier)
        kind == attempt_kind(r, process)
    IN  CASE kind = "success" ->
                 after_call(call_get_data_try(r0, res.value), res.value)
          [] kind = "retry" -> call_get_data_retry(r0, exception_identifier)
          [] kind = "abort" ->
                 main_except([ r1 EXCEPT !.last_call.kind = "abort",
                                         !.raised_ex = res.ex ], res.ex)
          [] kind = "failure" -> after_call(r1, None)

(***************************************************************************)
(* Actions.                                                                *)
(***************************************************************************)
\* what subprocess.run may return in this run: runs of more than MaxShortRun
\* units are modelled with the stdout texts of LongRunStdouts only
RunProcesses ==
    IF Len(global_table_list) + Len(regional_table_list) * Len(regions)
           > MaxShortRun
    THEN { process \in Processes : process.stdout \in LongRunStdouts }
    ELSE Processes

\* main is called: the fields are checked and run starts
Main ==
    /\ pc = "main"
    /\ Becomes(main(Self))

\* _get_data returns a payload
FetchSucceeds ==
    /\ pc = "get_data"
    /\ \E process \in RunProcesses :
          /\ attempt_kind(Self, process) = "success"
          /\ Becomes(call_get_data(Self, process))

\* _get_data raises and call_get_data calls itself again
FetchRetries ==
    /\ pc = "get_data"
    /\ \E process \in RunProcesses :
          /\ attempt_kind(Self, process) = "retry"
          /\ Becomes(call_get_data(Self, process))

\* _get_data raises and call_get_data returns None
FetchFails ==
    /\ pc = "get_data"
    /\ \E process \in RunProcesses :
          /\ attempt_kind(Self, process) = "failure"
          /\ Becomes(call_get_data(Self, process))

\* _get_data raises and call_get_data raises in turn
FetchAborts ==
    /\ pc = "get_data"
    /\ \E process \in RunProcesses :
          /\ attempt_kind(Self, process) = "abort"
          /\ Becomes(call_get_data(Self, process))

Next ==
    \/ Main
    \/ FetchSucceeds
    \/ FetchRetries
    \/ FetchFails
    \/ FetchAborts

Spec == Init /\ [][Next]_vars

(***************************************************************************)
(* A direct call call_get_data(table, n) on an object whose governor is in *)
(* any state a run can have left it in.                                    *)
(***************************************************************************)
\* largest retry budget passed to call_get_data
MaxRetryCount == 3
\* largest value of the failure counter at the call
MaxFailsAtCall == 6

InitCall ==
    /\ pc = "get_data"
    /\ attrs = [ f \in Range(OtherFields) |-> "set" ]
    /\ regions = << << "a" >> >>
    /\ global_table_list = Prefix(GlobalCatalogue, 1)
    /\ regional_table_list = << >>
    /\ _access_exception_list \in AccessExceptionOrders
    /\ current_consecutive_fails \in 0..MaxFailsAtCall
    /\ first_consecutively_failed \in BOOLEAN
    /\ first_consecutively_failed
          => current_consecutive_fails < max_first_consecutive_allowed_fails
    /\ loop = "direct"
    /\ table_idx = 0
    /\ region_idx = 0
    /\ retry_count \in 0..MaxRetryCount
    /\ data = << >>
    /\ data_dict = << >>
    /\ OCI_REGION = NoScope
    /\ response = << >>
    /\ file = None
    /\ dispatched = << << GlobalCatalogue[1], NoScope >> >>
    /\ attempts = 0
    /\ call_start = [ fails |-> current_consecutive_fails,
                      flag |-> first_consecutively_failed,
                      retry_count |-> retry_count ]
    /\ last_attempt = "none"
    /\ last_call = NoCall
    /\ terminal_failures = current_consecutive_fails
    /\ ever_succeeded = ~first_consecutively_failed
    /\ writes = 0
    /\ yields = {}
    /\ raised_ex = None
    /\ compartment_id \in RunCompartments
    /\ query = << >>
    /\ query_table = None
    /\ queries = {}
    /\ classifier_input = << >>
    /\ classifier_output = False
    /\ subprocess_run = NoProcess
    /\ get_data_result = NoResult
    /\ diagnostics = << >>
    /\ invocations = 0
    /\ run_outcome = NotCalled
    /\ scan_output = NoFile
    /\ final_file = NoFile
    /\ scan_result = NoScan

NextCall ==
    \/ FetchSucceeds
    \/ FetchRetries
    \/ FetchFails
    \/ FetchAborts

SpecCall == InitCall /\ [][NextCall]_vars

(***************************************************************************)
(* Direct calls construct_steampipe_select_query(table) on an object whose *)
(* governor is in any state a run can have left it in.                     *)
(***************************************************************************)
\* most tables that queries are built for on one object
MaxQueries == 2

InitQuery ==
    /\ pc = "query"
    /\ attrs = [ f \in Range(OtherFields) |-> "set" ]
    /\ regions = << << "a" >> >>
    /\ \E g \in 0..MaxGlobalTables : global_table_list = Prefix(GlobalCatalogue, g)
    /\ regional_table_list = << >>
    /\ _access_exception_list = BaseAccessExceptionList \o OciAccessExceptionList
    /\ current_consecutive_fails \in 0..MaxFailsAtCall
    /\ first_consecutively_failed \in BOOLEAN
    /\ loop = "direct"
    /\ table_idx = 0
    /\ region_idx = 0
    /\ retry_count = 0
    /\ data = << >>
    /\ data_dict = << >>
    /\ OCI_REGION = NoScope
    /\ response = << >>
    /\ file = None
    /\ dispatched = << >>
    /\ attempts = 0
    /\ call_start = [ fails |-> current_consecutive_fails,
                      flag |-> first_consecutively_failed,
                      retry_count |-> 0 ]
    /\ last_attempt = "none"
    /\ last_call = NoCall
    /\ terminal_failures = current_consecutive_fails
    /\ ever_succeeded = ~first_consecutively_failed
    /\ writes = 0
    /\ yields = {}
    /\ raised_ex = None
    /\ compartment_id \in CompartmentInputs
    /\ query = << >>
    /\ query_table = None
    /\ queries = {}
    /\ classifier_input = << >>
    /\ classifier_output = False
    /\ subprocess_run = NoProcess
    /\ get_data_result = NoResult
    /\ diagnostics = << >>
    /\ invocations = 0
    /\ run_outcome = NotCalled
    /\ scan_output = NoFile
    /\ final_file = NoFile
    /\ scan_result = NoScan

\* construct_steampipe_select_query(table) is called
BuildQuery ==
    /\ pc = "query"
    /\ Cardinality(queries) < MaxQueries
    /\ \E table \in QueryTables : Becomes(build_query(Self, table))

NextQuery == BuildQuery

SpecQuery == InitQuery /\ [][NextQuery]_vars

(***************************************************************************)
(* Runs in which the invocations of _get_data are counted.  Every step of  *)
(* the program ends: subprocess.run and time.sleep block and return.       *)
(***************************************************************************)
\* the regions arguments of the counted runs
CountedRegions ==
    { << << "a" >> >>, << << "a" >>, << "," >>, << "b" >> >> }

\* no run of the model invokes _get_data that often
MaxInvocations == (DefaultRetryCount + 1) * MaxUnits + 2

InitCounted ==
    /\ Init
    /\ regions \in CountedRegions
    /\ \A f \in DOMAIN attrs : attrs[f] # None

\* one invocation of _get_data by call_get_data and what follows it, counted
CountedFetch ==
    /\ pc = "get_data"
    /\ invocations < MaxInvocations
    /\ \E process \in RunProcesses :
          Becomes([ call_get_data(Self, process) EXCEPT
                        !.invocations = invocations + 1 ])

NextCounted ==
    \/ Main
    \/ CountedFetch

\* a step of the program is possible: main has not returned
Running ==
    \/ pc = "main"
    \/ pc = "get_data" /\ invocations < MaxInvocations

\* Every step of NextCounted changes pc or invocations, and one is possible
\* exactly when Running holds.  A step of the program as these two variables
\* show it: this is what the fairness condition is stated for, so that it
\* can be evaluated on the two variables alone.
Progress ==
    /\ Running
    /\ pc' \in { "get_data", "returned" }
    /\ invocations' \in { invocations, invocations + 1 }
    /\ << pc, invocations >>' # << pc, invocations >>

\* the program does not stop before main returns
SpecCounted ==
    InitCounted /\ [][NextCounted]_vars /\ WF_<< pc, invocations >>(Progress)

(***************************************************************************)
(* Direct calls has_authentication_error(text) on an OCIAsset object.      *)
(***************************************************************************)
\* error texts: some that hold one signature, some that hold two, some that
\* hold a signature of which another signature is a part, and some that hold
\* none or only a part of one
ErrorBodies ==
    { << >>,
      <<"connection", "reset", "by", "peer">>,
      <<"NotAuthenticated">>,
      <<"UnknownError">>,
      <<"SQLSTATE", "42703">>,
      <<"no", "such", "host">>,
      <<"Cloudguard", "subscription", "is", "not", "available">>,
      <<"your", "subscription", "is", "not", "available">>,
      <<"ServiceError", "NotAuthenticated">>,
      <<"InvalidParameter", "compartmentId", "is", "not", "available">>,
      <<"SQLSTATE", "42704">>,
      <<"no", "such", "file">>,
      <<"subscription", "is", "available">> }

ErrorPrefixes == { << >>, <<"Error:">> }

ErrorSuffixes == { << >>, <<"(request", "failed)">> }

ErrorTexts ==
    { p \o b \o s : p \in ErrorPrefixes, b \in ErrorBodies, s \in ErrorSuffixes }

\* an OCIAsset object, its signature list in one of the orders that
\* list(set(...)) may give, and the text it is about to classify
InitClassify ==
    /\ pc = "classify"
    /\ attrs = [ f \in Range(OtherFields) |-> "set" ]
    /\ regions = << << "a" >> >>
    /\ global_table_list = GlobalCatalogue
    /\ regional_table_list = RegionalCatalogue
    /\ _access_exception_list \in AccessExceptionOrders
    /\ current_consecutive_fails = 0
    /\ first_consecutively_failed = TRUE
    /\ loop = "direct"
    /\ table_idx = 0
    /\ region_idx = 0
    /\ retry_count = 0
    /\ data = << >>
    /\ data_dict = << >>
    /\ OCI_REGION = NoScope
    /\ response = << >>
    /\ file = None
    /\ dispatched = << >>
    /\ attempts = 0
    /\ call_start = [ fails |-> 0, flag |-> TRUE, retry_count |-> 0 ]
    /\ last_attempt = "none"
    /\ last_call = NoCall
    /\ terminal_failures = 0
    /\ ever_succeeded = FALSE
    /\ writes = 0
    /\ yields = {}
    /\ raised_ex = None
    /\ compartment_id \in RunCompartments
    /\ query = << >>
    /\ query_table = None
    /\ queries = {}
    /\ classifier_input \in ErrorTexts
    /\ classifier_output = False
    /\ subprocess_run = NoProcess
    /\ get_data_result = NoResult
    /\ diagnostics = << >>
    /\ invocations = 0
    /\ run_outcome = NotCalled
    /\ scan_output = NoFile
    /\ final_file = NoFile
    /\ scan_result = NoScan

\* has_authentication_error(exception) for an exception that is the text
\* r.classifier_input
classify(r) ==
    [ r EXCEPT !.pc = "classified",
               !.classifier_output =
                   first_match(r.classifier_input, r._access_exception_list) ]

\* has_authentication_error is called
Classify ==
    /\ pc = "classify"
    /\ Becomes(classify(Self))

NextClassify == Classify

SpecClassify == InitClassify /\ [][NextClassify]_vars

(***************************************************************************)
(* Direct calls _get_data(table) with each result of subprocess.run.       *)
(***************************************************************************)
InitGetData ==
    /\ pc = "run_query"
    /\ attrs = [ f \in Range(OtherFields) |-> "set" ]
    /\ regions = << << "a" >> >>
    /\ global_table_list = GlobalCatalogue
    /\ regional_table_list = RegionalCatalogue
    /\ _access_exception_list \in RunAccessExceptionOrders
    /\ current_consecutive_fails = 0
    /\ first_consecutively_failed = TRUE
    /\ loop = "direct"
    /\ table_idx = 0
    /\ region_idx = 0
    /\ retry_count = 0
    /\ data = << >>
    /\ data_dict = << >>
    /\ OCI_REGION = NoScope
    /\ response = << >>
    /\ file = None
    /\ \E table \in Range(GlobalCatalogue) \cup Range(RegionalCatalogue) :
          dispatched = << << table, NoScope >> >>
    /\ attempts = 0
    /\ call_start = [ fails |-> 0, flag |-> TRUE, retry_count |-> 0 ]
    /\ last_attempt = "none"
    /\ last_call = NoCall
    /\ terminal_failures = 0
    /\ ever_succeeded = FALSE
    /\ writes = 0
    /\ yields = {}
    /\ raised_ex = None
    /\ compartment_id \in RunCompartments
    /\ query = << >>
    /\ query_table = None
    /\ queries = {}
    /\ classifier_input = << >>
    /\ classifier_output = False
    /\ subprocess_run \in Processes
    /\ get_data_result = NoResult
    /\ diagnostics = << >>
    /\ invocations = 0
    /\ run_outcome = NotCalled
    /\ scan_output = NoFile
    /\ final_file = NoFile
    /\ scan_result = NoScan

\* _get_data(table) called directly: the query is built, the subprocess
\* returns r.subprocess_run, and the call returns or raises
get_data_call(r) ==
    LET table == r.dispatched[1][1]
    IN  [ build_query(r, table) EXCEPT
              !.pc = "ran",
              !.get_data_result = _get_data(table, r.subprocess_run) ]

\* _get_data is called
GetData ==
    /\ pc = "run_query"
    /\ Becomes(get_data_call(Self))

NextGetData == GetData

SpecGetData == InitGetData /\ [][NextGetData]_vars

(***************************************************************************)
(* Direct calls main() with each outcome of run().                         *)
(***************************************************************************)
\* the classes of the exceptions raised in the modules, each with the
\* classes it is an instance of
ExceptionClasses ==
    [ ModuleException |-> { "ModuleException", "Exception" },
      ModuleNotFoundError |-> { "ModuleNotFoundError", "ImportError", "Exception" },
      ImportError |-> { "ImportError", "Exception" },
      ValueError |-> { "ValueError", "Exception" },
      NotImplementedError |-> { "NotImplementedError", "RuntimeError", "Exception" },
      FileNotFoundError |-> { "FileNotFoundError", "OSError", "Exception" },
      AttributeError |-> { "AttributeError", "Exception" } ]

\* isinstance(e, class), the test of an except clause
isinstance(e, class) == class \in ExceptionClasses[e.type]

\* the status codes the modules raise a ModuleException with
RaisedStatusCodes ==
    { EMPTY_ATTRIBUTE, SUBPROCESS_ERROR, FILE_ERROR, PACKAGE_NOT_FOUND,
      JSON_ENCODE_ERROR, SUBPROCESS_OUTPUT_DECODE_ERROR }

\* what self.run() may do: return its response, or raise
RunOutcomes ==
    { [ kind |-> "returned", type |-> None, status_code |-> c ] :
          c \in { SUCCESS, NO_DATA } }
        \cup { [ kind |-> "raised", type |-> "ModuleException", status_code |-> c ] :
                   c \in RaisedStatusCodes }
        \cup { [ kind |-> "raised", type |-> t, status_code |-> 0 ] :
                   t \in DOMAIN ExceptionClasses \ { "ModuleException" } }

\* an object whose attributes were set from kwargs, before main is called
InitMain ==
    /\ pc = "main_call"
    /\ attrs \in AttrsInputs
    /\ regions \in RegionsInputs
    /\ global_table_list = GlobalCatalogue
    /\ regional_table_list = RegionalCatalogue
    /\ _access_exception_list \in RunAccessExceptionOrders
    /\ current_consecutive_fails = 0
    /\ first_consecutively_failed = TRUE
    /\ loop = "direct"
    /\ table_idx = 0
    /\ region_idx = 0
    /\ retry_count = 0
    /\ data = << >>
    /\ data_dict = << >>
    /\ OCI_REGION = NoScope
    /\ response = << >>
    /\ file = None
    /\ dispatched = << >>
    /\ attempts = 0
    /\ call_start = [ fails |-> 0, flag |-> TRUE, retry_count |-> 0 ]
    /\ last_attempt = "none"
    /\ last_call = NoCall
    /\ terminal_failures = 0
    /\ ever_succeeded = FALSE
    /\ writes = 0
    /\ yields = {}
    /\ raised_ex = None
    /\ compartment_id \in RunCompartments
    /\ query = << >>
    /\ query_table = None
    /\ queries = {}
    /\ classifier_input = << >>
    /\ classifier_output = False
    /\ subprocess_run = NoProcess
    /\ get_data_result = NoResult
    /\ diagnostics = << >>
    /\ invocations = 0
    /\ run_outcome = NotCalled
    /\ scan_output = NoFile
    /\ final_file = NoFile
    /\ scan_result = NoScan

\* main_call, had main no clause "except Exception"
main_call_no_catch_all(r, outcome) ==
    IF _check_fields(r) # None
    THEN [ r EXCEPT !.pc = "main_returned",
                    !.response =
                        _generate_error_response(
                            << "Provide value", _check_fields(r) >>,
                            EMPTY_ATTRIBUTE, None, None, None) ]
    ELSE LET r1 == [ r EXCEPT !.pc = "main_returned", !.run_outcome = outcome ]
         IN  IF outcome.kind = "returned"
             THEN [ r1 EXCEPT !.response =
                        [ response |-> "Success!",
                          status_code |-> outcome.status_code ] ]
             ELSE IF isinstance(outcome, "ModuleException")
             THEN [ r1 EXCEPT !.response =
                        _generate_error_response(<< "str(e)" >>,
                            outcome.status_code, None, None, None) ]
             ELSE IF isinstance(outcome, "ModuleNotFoundError")
             THEN [ r1 EXCEPT !.response =
                        _generate_error_response(
                            << "Couldn't properly initialize or import a package" >>,
                            PACKAGE_NOT_FOUND, None, None, None) ]
             ELSE [ r1 EXCEPT !.pc = "main_raised" ]

\* BaseModule.main for a run() that does outcome: the try block and the
\* first except clause that matches; an exception no clause matches
\* leaves main
main_call(r, outcome) ==
    IF _check_fields(r) # None
    THEN [ r EXCEPT !.pc = "main_returned",
                    !.response =
                        _generate_error_response(
                            << "Provide value", _check_fields(r) >>,
                            EMPTY_ATTRIBUTE, None, None, None) ]
    ELSE LET r1 == [ r EXCEPT !.pc = "main_returned", !.run_outcome = outcome ]
         IN  IF outcome.kind = "returned"
             THEN [ r1 EXCEPT !.response =
                        [ response |-> "Success!",
                          status_code |-> outcome.status_code ] ]
             ELSE IF isinstance(outcome, "ModuleException")
             THEN [ r1 EXCEPT !.response =
                        _generate_error_response(<< "str(e)" >>,
                            outcome.status_code, None, None, None) ]
             ELSE IF isinstance(outcome, "ModuleNotFoundError")
             THEN [ r1 EXCEPT !.response =
                        _generate_error_response(
                            << "Couldn't properly initialize or import a package" >>,
                            PACKAGE_NOT_FOUND, None, None, None) ]
             ELSE IF isinstance(outcome, "Exception")
             THEN [ r1 EXCEPT !.response =
                        _generate_error_response(<< "Unexpected error" >>,
                            UNEXPECTED_ERROR, None, None, None) ]
             ELSE [ r1 EXCEPT !.pc = "main_raised" ]

\* main is called
MainCall ==
    /\ pc = "main_call"
    /\ \E outcome \in RunOutcomes : Becomes(main_call(Self, outcome))

NextMain == MainCall

SpecMain == InitMain /\ [][NextMain]_vars

(***************************************************************************)
(* Direct calls execute_cloud_sploit_query with each result of the scan.   *)
(***************************************************************************)
\* the warning _check_subprocess looks for in stderr
SdkWarning == << "We are formalizing our plans to enter AWS SDK for JavaScript" >>

\* error_message of check_inbuilt_cloudsploit_error
InvalidTokenMessage == << "The security token included in the request is invalid" >>

\* what subprocess.run may return for the scan
ScanStderrs ==
    { << >>,
      << "(node:1)", "We are formalizing our plans to enter AWS SDK for JavaScript" >>,
      << "Error:", "config" >> }
ScanProcesses == [ returncode : ReturnCodes, stdout : { "" }, stderr : ScanStderrs ]

\* the records of a scan output: objects with the keys resource, status and
\* message, or with one of them absent
ScanMessages ==
    { << "OCI:", "The security token included in the request is invalid" >>,
      << "The security token is valid" >>,
      << >> }
ScanRecords ==
    [ resource : { "N/A", "bucket-1" }, status : { "UNKNOWN", "OK" },
      message : ScanMessages ]
        \cup [ resource : { "N/A" }, status : { "UNKNOWN" } ]
        \cup [ status : { "UNKNOWN" }, message : ScanMessages ]

\* the lists of at most MaxRecords records
RECURSIVE RecordLists(_)
RecordLists(n) ==
    IF n = 0 THEN { << >> }
    ELSE RecordLists(n - 1)
             \cup { Append(l, d) : l \in { x \in RecordLists(n - 1) : Len(x) = n - 1 },
                                   d \in ScanRecords }

\* what the scan may leave at cs-accuknox/{output_file}: nothing, an empty
\* file, a file that is not JSON, or a JSON list of records
ScanOutputs ==
    { NoFile,
      [ state |-> "empty", records |-> << >> ],
      [ state |-> "not json", records |-> << >> ] }
        \cup { [ state |-> "json", records |-> l ] : l \in RecordLists(MaxRecords) }

InitScan ==
    /\ pc = "scan"
    /\ attrs = [ f \in Range(OtherFields) |-> "set" ]
    /\ regions = << << "a" >> >>
    /\ global_table_list = GlobalCatalogue
    /\ regional_table_list = RegionalCatalogue
    /\ _access_exception_list \in RunAccessExceptionOrders
    /\ current_consecutive_fails = 0
    /\ first_consecutively_failed = TRUE
    /\ loop = "direct"
    /\ table_idx = 0
    /\ region_idx = 0
    /\ retry_count = 0
    /\ data = << >>
    /\ data_dict = << >>
    /\ OCI_REGION = NoScope
    /\ response = << >>
    /\ file = None
    /\ dispatched = << >>
    /\ attempts = 0
    /\ call_start = [ fails |-> 0, flag |-> TRUE, retry_count |-> 0 ]
    /\ last_attempt = "none"
    /\ last_call = NoCall
    /\ terminal_failures = 0
    /\ ever_succeeded = FALSE
    /\ writes = 0
    /\ yields = {}
    /\ raised_ex = None
    /\ compartment_id \in RunCompartments
    /\ query = << >>
    /\ query_table = None
    /\ queries = {}
    /\ classifier_input = << >>
    /\ classifier_output = False
    /\ subprocess_run \in ScanProcesses
    /\ get_data_result = NoResult
    /\ diagnostics = << >>
    /\ invocations = 0
    /\ run_outcome = NotCalled
    /\ scan_output \in ScanOutputs
    /\ final_file = NoFile
    /\ scan_result = NoScan

\* _check_subprocess, had it no exemption for the SDK warning
_check_subprocess_strict(process) == process.returncode # 0

\* CloudsploitSetUpMixin._check_subprocess: TRUE when it raises
_check_subprocess(process) ==
    /\ process.returncode # 0
    /\ ~Contains(SdkWarning, process.stderr)

\* dict.get(key, default)
get(d, key, default) == IF key \in DOMAIN d THEN d[key] ELSE default

\* the loop of check_inbuilt_cloudsploit_error over the records from the
\* i-th on
RECURSIVE token_error_from(_, _)
token_error_from(cloudsploit_data, i) ==
    IF i > Len(cloudsploit_data) THEN FALSE
    ELSE LET d == cloudsploit_data[i]
             resource == get(d, "resource", "")
             status == get(d, "status", "")
             message == get(d, "message", << >>)
         IN  IF /\ resource = "N/A"
                /\ status = "UNKNOWN"
                /\ Contains(InvalidTokenMessage, message)
             THEN TRUE
             ELSE token_error_from(cloudsploit_data, i + 1)

\* CloudsploitSetUpMixin.check_inbuilt_cloudsploit_error on a file that
\* json.load can read
check_inbuilt_cloudsploit_error(f) == token_error_from(f.records, 1)

\* the ModuleException of execute_cloud_sploit_query and _check_subprocess,
\* after the error line it printed
scan_error(process, printed) ==
    [ kind |-> "raised", type |-> "ModuleException",
      status_code |-> SUBPROCESS_ERROR,
      subprocess_standard_error |-> process.stderr, printed |-> printed ]

\* an exception of the library calls of execute_cloud_sploit_query
library_error(type) ==
    [ kind |-> "raised", type |-> type, status_code |-> 0,
      subprocess_standard_error |-> << >>, printed |-> None ]

\* CloudsploitSetUpMixin.execute_cloud_sploit_query, from the return of
\* subprocess.run on: the three checks in their order, then the move
execute_cloud_sploit_query(r) ==
    LET process == r.subprocess_run
        f == r.scan_output
        r1 == [ r EXCEPT !.pc = "scanned" ]
    IN  IF _check_subprocess(process)
        THEN [ r1 EXCEPT !.scan_result = scan_error(process, "returncode") ]
        ELSE IF f.state = "missing"
        THEN [ r1 EXCEPT !.scan_result = library_error("FileNotFoundError") ]
        ELSE IF f.state = "empty"
        THEN [ r1 EXCEPT !.scan_result = scan_error(process, "size is 0") ]
        ELSE IF f.state = "not json"
        THEN [ r1 EXCEPT !.scan_result = library_error("JSONDecodeError") ]
        ELSE IF check_inbuilt_cloudsploit_error(f)
        THEN [ r1 EXCEPT !.scan_result = scan_error(process, "security token") ]
        ELSE [ r1 EXCEPT !.scan_output = NoFile,
                         !.final_file = f,
                         !.scan_result =
                             [ kind |-> "returned", type |-> None,
                               status_code |-> SUCCESS,
                               subprocess_standard_error |-> << >>,
                               printed |-> "Success!" ] ]

\* execute_cloud_sploit_query is called
Scan ==
    /\ pc = "scan"
    /\ Becomes(execute_cloud_sploit_query(Self))

NextScan == Scan

SpecScan == InitScan /\ [][NextScan]_vars

TypeOK ==
    /\ pc \in { "main", "get_data", "returned", "query", "classify", "classified",
               "run_query", "ran", "main_call", "main_returned", "main_raised",
               "scan", "scanned" }
    /\ current_consecutive_fails \in Nat
    /\ first_consecutively_failed \in BOOLEAN
    /\ retry_count \in Nat

(***************************************************************************)
(* Properties.                                                             *)
(***************************************************************************)
\* main returned the response of a run that was not aborted
Completed == pc = "returned" /\ "tables_scanned" \in DOMAIN response

\* call_get_data raised and main returned the error response
Aborted == pc = "returned" /\ last_call.kind = "abort"

\* _check_fields passed, run was called and returned
RunReturned ==
    /\ pc = "returned"
    /\ loop # "direct"
    /\ _check_fields(Self) = None
    /\ last_call.kind # "abort"

\* number of times run called call_get_data for unit
TimesDispatched(unit) ==
    Cardinality({ i \in 1..Len(dispatched) : dispatched[i] = unit })

\* the entries of a result mapping d as pairs (unit, payload): d[table] of a
\* global table, d[table][scope] of a regional table
EntriesOf(d) ==
    { << << t, NoScope >>, d[t] >> : t \in DOMAIN d \cap Range(global_table_list) }
        \cup UNION { { << << t, s >>, d[t][s] >> : s \in DOMAIN d[t] } :
                         t \in DOMAIN d \cap Range(regional_table_list) }

\* the entries accumulated so far: those of data, and those of the data_dict
\* of the regional table whose scopes are being fetched
Entries ==
    EntriesOf(data)
        \cup IF loop = "regional"
             THEN { << << regional_table_list[table_idx], s >>, data_dict[s] >> :
                        s \in DOMAIN data_dict }
             ELSE {}

\* the entries of the artifact that _write_to_file wrote
ArtifactEntries == IF writes = 0 THEN {} ELSE EntriesOf(file)

C3_CounterZeroAfterSuccess ==
    last_call.kind = "success" => current_consecutive_fails = 0

\* C4: a fetch whose first attempt fails with a classified error and whose
\* second attempt succeeds returns the payload of the second attempt, which
\* run merges; it leaves the counter as it was and clears the flag.
C4_RetryThenSuccess ==
    last_call.kind = "success" /\ last_call.attempts = 2
        => /\ current_consecutive_fails = last_call.fails_before
           /\ first_consecutively_failed = FALSE
           /\ last_call.unit[2] = NoScope /\ Truthy(last_call.value)
                 => /\ last_call.unit[1] \in DOMAIN data
                    /\ data[last_call.unit[1]] = last_call.value

C4_Witness ==
    /\ last_call.kind = "success"
    /\ last_call.attempts = 2
    /\ last_call.value = "Rows1"
    /\ last_call.unit[2] = NoScope
    /\ last_call.fails_before > 0

\* C5: an attempt that fails with an error matching no signature ends the
\* fetch, whatever budget is left: no further _get_data invocation is made for
\* it and the counter is one more than when the fetch began.
C5_UnclassifiedNeverRetried ==
    last_attempt = "unclassified"
        => /\ attempts = 0
           /\ pc = "returned"
           /\ last_call.kind \in { "failure", "abort" }
           /\ current_consecutive_fails = last_call.fails_before + 1

C5_Witness ==
    /\ last_attempt = "unclassified"
    /\ retry_count >= 2
    /\ last_call.attempts = 2

\* C6: call_get_data(table, n) retries a classified failure exactly while the
\* budget is positive, each retry taking one from it: it invokes _get_data at
\* most n + 1 times, and a classified failure ends the fetch only with the
\* budget at 0, as one terminal failure.
C6_RetryBudget ==
    /\ retry_count >= 0
    /\ pc = "get_data" => attempts + retry_count = call_start.retry_count
    /\ last_call.attempts <= call_start.retry_count + 1
    /\ last_attempt = "classified" /\ pc = "returned"
          => /\ last_call.kind \in { "failure", "abort" }
             /\ retry_count = 0
             /\ last_call.attempts = call_start.retry_count + 1
             /\ current_consecutive_fails = call_start.fails + 1
             /\ terminal_failures = call_start.fails + 1

C6_Witness ==
    /\ pc = "returned"
    /\ last_attempt = "classified"
    /\ call_start.retry_count >= 2
    /\ last_call.attempts = call_start.retry_count + 1

\* C7: after call_get_data has raised, no unit is dispatched and _get_data is
\* not invoked again.
C7_NoFetchAfterAbort ==
    [][ last_call.kind = "abort"
          => /\ pc' = "returned"
             /\ dispatched' = dispatched
             /\ attempts' = attempts
             /\ last_attempt' = last_attempt ]_vars

\* the run was aborted in the regional loop with a scope of the current
\* table left
C7_Witness ==
    /\ Aborted
    /\ loop = "regional"
    /\ region_idx < Len(regions)

\* C9: a run that is not aborted calls call_get_data exactly once for each
\* global table and exactly once for each pair of a regional table and a scope
\* of the scope set.
C9_EachUnitOnce ==
    Completed
        => /\ \A i \in 1..Len(global_table_list) :
                 TimesDispatched(<< global_table_list[i], NoScope >>) = 1
           /\ \A i \in 1..Len(regional_table_list) :
                 \A scope \in Range(regions) :
                     TimesDispatched(<< regional_table_list[i], scope >>) = 1

C12_EveryYieldInArtifact ==
    Completed => \A y \in yields : y \in ArtifactEntries

\* C13: the status value of a run that collected data (SUCCESS) is carried
\* by no run that ended without data and by no aborted run.
C13_StatusDistinguishesOutcomes ==
    pc = "returned" /\ response.status_code = SUCCESS
        => RunReturned /\ DOMAIN data # {}

C15_AbortResponse ==
    Aborted
        => /\ response.response =
                  << "oci_asset_inventory", << raised_ex.msg, raised_ex.table >> >>
           /\ response.status_code = raised_ex.status_code
           /\ response.status_code = SUBPROCESS_ERROR
           /\ response.status_code # SUCCESS
           /\ "tables_scanned" \notin DOMAIN response
           /\ raised_ex.table = dispatched[Len(dispatched)][1]
           /\ terminal_failures = max_first_consecutive_allowed_fails

\* the run was aborted by a subprocess that was killed
C15_Witness ==
    /\ Aborted
    /\ raised_ex.msg = "The process was killed"
    /\ raised_ex.subprocess_return_code = 0

\* C16: _write_to_file is called at most once, and it has been called exactly
\* when run has returned with a result mapping that is not empty; what it
\* wrote is that mapping.
C16_WrittenIffData ==
    /\ writes <= 1
    /\ writes = 1 <=> RunReturned /\ DOMAIN data # {}
    /\ writes = 1 => file = data

\* a run with a failure wrote its artifact
C16_Witness ==
    /\ writes = 1
    /\ terminal_failures >= 1
    /\ pc = "returned"

\* C17: tables_with_data of a run that is not aborted is the number of
\* top-level keys of the result mapping and of the artifact, which is the
\* number of tables with a call that returned data.
C17_WithDataCountsKeys ==
    RunReturned
        => /\ response.tables_with_data = Cardinality(DOMAIN data)
           /\ writes = 1 => response.tables_with_data = Cardinality(DOMAIN file)
           /\ response.tables_with_data =
                  Cardinality({ y[1][1] : y \in yields })

\* a regional table has data in two scopes
C17_Witness ==
    /\ RunReturned
    /\ \E t \in DOMAIN data \cap Range(regional_table_list) :
          Cardinality(DOMAIN data[t]) >= 2
    /\ response.tables_with_data < Cardinality(yields)

\* a compartment_id was supplied and table is neither global nor tenant-level
ScopeFilterApplies(table) ==
    /\ compartment_id \notin { None, "" }
    /\ table \notin Range(global_table_list)
    /\ table \notin tenant_level_tables

\* table has a where in selection_string_dict
StaticFilterApplies(table) ==
    /\ table \in DOMAIN selection_string_dict
    /\ "where" \in DOMAIN selection_string_dict[table]

\* the pieces of the filter on compartment_id
ScopeFilter == << "compartment_id = '", compartment_id, "'" >>

\* q has the filter on compartment_id
HasScopeFilter(q) ==
    \E i \in 1..(Len(q) - 2) : SubSeq(q, i, i + 2) = ScopeFilter

\* C18: the query built for a table has the filter compartment_id = '<value>'
\* if and only if a non-empty compartment_id was supplied, the table is not in
\* global_table_list and it is not in tenant_level_tables; a table of
\* tenant_level_tables never has it.
C18_ScopeFilterIffEligible ==
    query_table # None
        => /\ HasScopeFilter(query) <=> ScopeFilterApplies(query_table)
           /\ query_table \in tenant_level_tables => ~HasScopeFilter(query)

\* the query was built for a regional table of tenant_level_tables with a
\* compartment_id supplied
C18_Witness ==
    /\ query_table = "oci_objectstorage_object"
    /\ compartment_id = "ocid1.compartment.oc1..c"
    /\ ~HasScopeFilter(query)

\* C19: the queries built for one table are the same at every invocation of
\* a run, whatever the counter, the flag, the results and OCI_REGION are at
\* the invocation, and building the query of the invocation to come changes
\* nothing but the record of the queries built.
C19_QueryIndependentOfRunState ==
    /\ \A p \in queries, q \in queries : p[1] = q[1] => p[2] = q[2]
    /\ pc = "get_data"
          => [ build_query(Self, dispatched[Len(dispatched)][1])
                   EXCEPT !.query = query,
                          !.query_table = query_table,
                          !.queries = queries ] = Self

\* the query of a regional table was built for two scopes, the second time
\* after a terminal failure and a success
C19_Witness ==
    /\ pc = "returned"
    /\ Len(dispatched) = 2
    /\ dispatched[1][1] = dispatched[2][1]
    /\ dispatched[1][2] # dispatched[2][2]
    /\ current_consecutive_fails = 1
    /\ DOMAIN data # {}
    /\ Cardinality(queries) = 1
    /\ HasScopeFilter(query)

\* C20: the query is "select <columns> from <table>", with the columns of
\* selection_string_dict or else "*", followed by nothing when no filter
\* applies, by " where " and the filter when one applies, and by " where ",
\* the static filter, " and " and the filter on compartment_id when both do;
\* " where " occurs at most once.
C20_QueryShape ==
    query_table # None
        => LET columns == IF query_table \in DOMAIN selection_string_dict
                          THEN selection_string_dict[query_table].columns
                          ELSE "*"
               select == << "select ", columns, " from ", query_table >>
               static == IF StaticFilterApplies(query_table)
                         THEN << selection_string_dict[query_table].where >>
                         ELSE << >>
           IN  /\ query =
                     CASE StaticFilterApplies(query_table)
                              /\ ScopeFilterApplies(query_table) ->
                            select \o << " where " >> \o static
                                \o << " and " >> \o ScopeFilter
                       [] StaticFilterApplies(query_table)
                              /\ ~ScopeFilterApplies(query_table) ->
                            select \o << " where " >> \o static
                       [] ~StaticFilterApplies(query_table)
                              /\ ScopeFilterApplies(query_table) ->
                            select \o << " where " >> \o ScopeFilter
                       [] OTHER -> select
               /\ Cardinality({ i \in 1..Len(query) : query[i] = " where " }) <= 1

\* the query has a static filter and the filter on compartment_id
C20_Witness ==
    /\ query_table = "aws_appautoscaling_target"
    /\ HasScopeFilter(query)
    /\ \E i \in 1..Len(query) : query[i] = " and "

\* C21: for one signature configuration the classifier returns the same
\* signature for a text on every run: what it has returned is what it
\* returns with every order that the construction of the list can give
C21_SameSignatureEveryRun ==
    pc = "classified"
        => \A list \in AccessExceptionOrders :
               classifier_output = first_match(classifier_input, list)

\* C22: the scopes that are queried are the caller's scopes trimmed and
\* deduplicated: no scope that is queried is empty or holds a blank, and for
\* one regional table no scope is queried by two calls.
C22_ScopesTrimmedAndDeduplicated ==
    /\ \A i \in 1..Len(dispatched) :
           /\ dispatched[i][2] # << >>
           /\ " " \notin Range(dispatched[i][2])
    /\ \A i \in 1..Len(dispatched) : \A j \in 1..Len(dispatched) :
           (i # j /\ dispatched[i][1] = dispatched[j][1])
               => dispatched[i][2] # dispatched[j][2]

\* the results of subprocess.run that make json.loads raise in _get_data
DecodeFailures ==
    { process \in Processes :
          /\ process.returncode = 0
          /\ process.stdout # ""
          /\ ~json_loads(process.stdout).ok }

\* C23: an invocation of _get_data whose output does not parse is an
\* unclassified failure of its fetch: whenever a fetch is about to invoke
\* _get_data and whatever the budget, such an output is not retried, ends
\* the call with one more terminal failure, and ends the run only as the
\* failure that reaches the limit of the governor.
C23_DecodeFailureUnclassified ==
    pc = "get_data"
        => \A process \in DecodeFailures \cap RunProcesses :
               LET r == call_get_data(Self, process)
               IN  /\ attempt_kind(Self, process) \in { "failure", "abort" }
                   /\ r.last_attempt = "unclassified"
                   /\ r.terminal_failures = terminal_failures + 1
                   /\ attempt_kind(Self, process) = "abort"
                          => current_consecutive_fails + 1
                                 >= max_first_consecutive_allowed_fails

\* C24: a direct invocation of _get_data returns (a Success) exactly when
\* the subprocess exited with 0, wrote something to stdout and what it wrote
\* is JSON; in every other case it raises a ModuleException with status
\* SUBPROCESS_ERROR that holds the return code, the stdout and the stderr of
\* the subprocess as they were, the stderr being what the classifier reads.
C24_SuccessIffCleanParsedOutput ==
    pc = "ran"
        => /\ ~get_data_result.raised
                  <=> /\ subprocess_run.returncode = 0
                      /\ subprocess_run.stdout # ""
                      /\ subprocess_run.stdout
                             \in { "null", "[]", "[{\"id\": 1}]", "[{\"id\": 2}]" }
           /\ get_data_result.raised
                  => /\ get_data_result.value = None
                     /\ get_data_result.ex.status_code = SUBPROCESS_ERROR
                     /\ get_data_result.ex.subprocess_return_code
                            = subprocess_run.returncode
                     /\ get_data_result.ex.subprocess_standard_output
                            = subprocess_run.stdout
                     /\ get_data_result.ex.subprocess_standard_error
                            = subprocess_run.stderr
                     /\ has_authentication_error(get_data_result.ex,
                                                 _access_exception_list)
                            = first_match(subprocess_run.stderr,
                                          _access_exception_list)

\* each kind of failure has been seen with a stderr that holds a signature,
\* here an output that is not JSON from a subprocess that exited with 0
C24_Witness ==
    /\ pc = "ran"
    /\ get_data_result.raised
    /\ subprocess_run.returncode = 0
    /\ subprocess_run.stdout = "not json"
    /\ subprocess_run.stderr = << "Error:", "NotAuthenticated" >>
    /\ get_data_result.ex.msg = "The data was in an unexpected format"

\* the calls of call_get_data that OCIAsset.run makes when no call raises
UnitsOfRun ==
    Len(global_table_list) + Len(regional_table_list) * Len(regions)

UnitAt(k) ==
    IF k <= Len(global_table_list)
    THEN << global_table_list[k], NoScope >>
    ELSE LET m == k - Len(global_table_list) - 1
         IN  << regional_table_list[(m \div Len(regions)) + 1],
                regions[(m % Len(regions)) + 1] >>

\* C26: the fetches of a run are made in one fixed order, every global table
\* in catalogue order before any regional table, the regional tables in
\* catalogue order, and for one regional table all scopes in the caller's
\* order before the next table; a run that is not aborted has made them all.
C26_FixedFetchOrder ==
    /\ \A k \in 1..Len(dispatched) : dispatched[k] = UnitAt(k)
    /\ Len(dispatched) <= UnitsOfRun
    /\ Completed => Len(dispatched) = UnitsOfRun

\* a run with two global tables, two regional tables and two scopes is over
C26_Witness ==
    /\ Completed
    /\ Len(global_table_list) >= 2
    /\ Len(regional_table_list) >= 2
    /\ Len(regions) >= 2
    /\ regions[1] # regions[2]
    /\ Len(dispatched) = 6

\* C27: a step that ends a call of call_get_data with a terminal failure
\* adds exactly one to current_consecutive_fails; a step after which the
\* call retries leaves the counter and first_consecutively_failed as they
\* were; no step takes from the counter, and when the call is over the
\* counter is what it was when the call was made, or one more, however many
\* times _get_data was invoked.
C27_CounterStepsByOne ==
    [][ /\ terminal_failures' = terminal_failures + 1
            => current_consecutive_fails' = current_consecutive_fails + 1
        /\ attempts' = attempts + 1
            => /\ current_consecutive_fails' = current_consecutive_fails
               /\ first_consecutively_failed' = first_consecutively_failed
        /\ current_consecutive_fails' >= current_consecutive_fails
        /\ pc' = "returned"
            => /\ current_consecutive_fails' - call_start.fails \in { 0, 1 }
               /\ last_call'.kind \in { "failure", "abort" }
                      <=> current_consecutive_fails' = call_start.fails + 1 ]_vars

\* a call with a budget of three has failed at its fourth attempt
C27_Witness ==
    /\ pc = "returned"
    /\ last_call.kind = "failure"
    /\ last_call.attempts = 4
    /\ call_start.retry_count = 3
    /\ current_consecutive_fails = call_start.fails + 1

\* the lines with tag among those the latest attempt printed
Printed(tag) ==
    Cardinality({ i \in 1..Len(diagnostics) : diagnostics[i] = tag })

\* C28: the attempt that ends a call with a terminal failure prints exactly
\* one diagnostic for the internal team, and one for the customer exactly
\* when that attempt failed with a classified error; an attempt that is
\* retried prints neither of the two, and neither does one that succeeds.
C28_DiagnosticsPerTerminalFailure ==
    [][ /\ terminal_failures' = terminal_failures + 1
            => /\ Printed("INTERNAL-TEAM-ISSUE")' = 1
               /\ Printed("CUSTOMER-ISSUE")'
                      = IF last_attempt' = "classified" THEN 1 ELSE 0
        /\ ( pc = "get_data" /\ terminal_failures' = terminal_failures )
            => /\ Printed("INTERNAL-TEAM-ISSUE")' = 0
               /\ Printed("CUSTOMER-ISSUE")' = 0 ]_vars

\* a classified failure was retried and the call then ended with an
\* unclassified failure
C28_Witness ==
    /\ last_call.kind = "failure"
    /\ last_call.attempts = 2
    /\ last_attempt = "unclassified"
    /\ Printed("INTERNAL-TEAM-ISSUE") = 1
    /\ Printed("CUSTOMER-ISSUE") = 0

\* the executor invocations in flight: subprocess.run blocks, and a call is
\* at its invocation of _get_data exactly when pc is "get_data"
InFlight == IF pc = "get_data" THEN 1 ELSE 0

\* C29: at most one executor invocation is in flight, and whenever _get_data
\* is about to be invoked for a unit of a regional table, at the first
\* attempt as at a retry, the environment variable OCI_REGION holds the
\* scope of that unit.
C29_ActiveScopeIsUnitScope ==
    /\ InFlight <= 1
    /\ ( pc = "get_data" /\ loop = "regional" )
           => /\ OCI_REGION = dispatched[Len(dispatched)][2]
              /\ OCI_REGION = regions[region_idx]
              /\ dispatched[Len(dispatched)][1] = regional_table_list[table_idx]

\* the second scope of a regional table is being retried, after a call for
\* another scope
C29_Witness ==
    /\ pc = "get_data"
    /\ loop = "regional"
    /\ attempts = 1
    /\ region_idx = 2
    /\ regions[1] # regions[2]
    /\ OCI_REGION = regions[2]

\* C30: when call_get_data has raised, nothing has been collected: no fetch
\* of the run has succeeded, data and data_dict are empty, no call has
\* returned a payload and no file has been written.
C30_NothingCollectedAtAbort ==
    last_call.kind = "abort"
        => /\ DOMAIN data = {}
           /\ DOMAIN data_dict = {}
           /\ yields = {}
           /\ writes = 0
           /\ ~ever_succeeded
           /\ first_consecutively_failed

\* a run was aborted in its regional loop, at the second scope of a table
C30_Witness ==
    /\ Aborted
    /\ loop = "regional"
    /\ region_idx = 2
    /\ terminal_failures = max_first_consecutive_allowed_fails
    /\ DOMAIN data = {}

ExitCheckPasses ==
    \/ subprocess_run.returncode = 0
    \/ Contains(SdkWarning, subprocess_run.stderr)

\* the file the scan left, wherever it is now
ScannedFile == IF final_file # NoFile THEN final_file ELSE scan_output

\* some record of the scanned file reports the invalid security token
HasTokenRecord ==
    \E i \in 1..Len(ScannedFile.records) :
        LET d == ScannedFile.records[i]
        IN  /\ { "resource", "status", "message" } \subseteq DOMAIN d
            /\ d.resource = "N/A"
            /\ d.status = "UNKNOWN"
            /\ Contains(InvalidTokenMessage, d.message)

\* the call ended with the ModuleException of a failed check, the output
\* file where the scan left it
FailedCheck(printed) ==
    /\ scan_result.kind = "raised"
    /\ scan_result.type = "ModuleException"
    /\ scan_result.status_code = SUBPROCESS_ERROR
    /\ scan_result.printed = printed
    /\ final_file = NoFile
    /\ scan_output = ScannedFile

\* C34: execute_cloud_sploit_query returns a success response and moves the
\* output file to filename only if the exit check, the size check and the
\* token check all pass, tested in this order; the first check that fails
\* raises a ModuleException with SUBPROCESS_ERROR and the file stays where
\* it was. An output file that is absent or not JSON ends the call with
\* the exception of the library, the file unmoved.
C34_SuccessOnlyAfterThreeChecks ==
    pc = "scanned" =>
        /\ scan_result.kind \in { "returned", "raised" }
        /\ scan_result.kind = "returned"
               <=> /\ ExitCheckPasses
                   /\ ScannedFile.state = "json"
                   /\ ~HasTokenRecord
        /\ scan_result.kind = "returned"
               => /\ scan_result.status_code = SUCCESS
                  /\ final_file = ScannedFile
                  /\ scan_output = NoFile
        /\ final_file # NoFile => scan_result.kind = "returned"
        /\ ~ExitCheckPasses => FailedCheck("returncode")
        /\ ( ExitCheckPasses /\ ScannedFile.state = "empty" )
               => FailedCheck("size is 0")
        /\ ( ExitCheckPasses /\ ScannedFile.state = "json" /\ HasTokenRecord )
               => FailedCheck("security token")
        /\ ( ExitCheckPasses /\ ScannedFile.state \in { "missing", "not json" } )
               => /\ scan_result.kind = "raised"
                  /\ scan_result.type # "ModuleException"
                  /\ final_file = NoFile

C34_Witness ==
    /\ pc = "scanned"
    /\ subprocess_run.returncode # 0
    /\ ExitCheckPasses
    /\ Len(ScannedFile.records) = 2
    /\ HasTokenRecord
    /\ FailedCheck("security token")

====
